---------------------------- MODULE Spec2Model ----------------------------
(***************************************************************************)
(* The SFDP stake collectors: collect-enhanced.js (main) and the SFDP part *)
(* of collect-network.js (analyzeStakeAccounts, collect).                  *)
(*                                                                         *)
(* A run fetches the epoch, the validator metadata, the vote accounts and  *)
(* the block production, then for each authority (firep, mpa4) fetches its *)
(* stake accounts, folds them into per-voter aggregates, sorts and         *)
(* analyses them, and finally combines the two analyses and writes the     *)
(* report.                                                                 *)
(*                                                                         *)
(* Numbers.  Stake is held in whole SOL (parseInt(lamports) / 1e9 of the   *)
(* lamport strings of StakeStrings is a whole number); sums of stake are   *)
(* exact, IEEE-754 rounding of the sums is not modelled.  The JavaScript   *)
(* value NaN that parseInt gives for an unparsable string is the integer   *)
(* NaN below, which every arithmetic operator and comparison treats as     *)
(* JavaScript does.  The result of a division is a record                  *)
(* [k, n, d]: k = "num" is the fraction n/d, k = "nan" is NaN, k = "inf"   *)
(* is Infinity, k = "str" is the string toFixed made of n/d (d = 10^digits)*)
(* and k = "strnan", "strinf" are the strings "NaN" and "Infinity".        *)
(* A value that may be null or absent is a sequence: <<>> or <<v>>.        *)
(***************************************************************************)
EXTENDS Integers, Sequences, FiniteSets, TLC

VARIABLES
    pc,                \* position of the run
    valMap,            \* voter -> stakewiz entry (enhanced main, l.47)
    voteMap,           \* voter -> vote account entry (l.56)
    key,               \* index in AUTHORITIES of the authority being collected
    accounts,          \* the list getStakeAccounts returned (SpecList; <<>> in Spec,
                       \* where each account is drawn when the loop reaches it)
    idx,               \* stake accounts of this authority folded so far
    nFetched,          \* stake accounts folded over the whole run
    validators,        \* voter aggregates in insertion order (l.93)
    totalActive,       \* l.94
    totalDeactivating, \* l.94
    totalEmpty,        \* l.94
    result,            \* result.accounts: the reports in insertion order
    combined,          \* result.combined: <<>> until assembled
    written            \* the files written by this run

vars == <<pc, valMap, voteMap, key, accounts, idx, nFetched, validators,
          totalActive, totalDeactivating, totalEmpty, result, combined, written>>

---------------------------------------------------------------------------
(* Bounds *)

\* stake accounts returned to one run, over both authorities
MaxAccounts == 4

\* length of the input list of SpecList
MaxList == 3

\* length of the input list of SpecNetwork
MaxNetList == 4

---------------------------------------------------------------------------
(* JavaScript values *)

None == <<>>
Some(x) == <<x>>

\* parseInt of a string that does not start with digits
NaN == -1

Add(a, b) == IF a = NaN \/ b = NaN THEN NaN ELSE a + b

\* a > b, a >= b, a < b: false when either side is NaN
Gt(a, b) == a # NaN /\ b # NaN /\ a > b
Ge(a, b) == a # NaN /\ b # NaN /\ a >= b
Lt(a, b) == a # NaN /\ b # NaN /\ a < b

QNum(n, d) == [k |-> "num", n |-> n, d |-> d]
QNaN == [k |-> "nan", n |-> 0, d |-> 1]
QInf == [k |-> "inf", n |-> 0, d |-> 1]
QZero == QNum(0, 1)

\* a / b of two non-negative numbers (or NaN)
Div(a, b) ==
    IF a = NaN \/ b = NaN THEN QNaN
    ELSE IF b = 0 THEN (IF a = 0 THEN QNaN ELSE QInf)
    ELSE QNum(a, b)

\* q * 100
Times100(q) == IF q.k = "num" THEN QNum(q.n * 100, q.d) ELSE q

\* Number.prototype.toFixed(digits), scale = 10^digits: n/d rounded half up
ToFixed(q, scale) ==
    CASE q.k = "nan" -> [k |-> "strnan", n |-> 0, d |-> 1]
      [] q.k = "inf" -> [k |-> "strinf", n |-> 0, d |-> 1]
      [] OTHER ->
            LET whole == q.n \div q.d
                rest  == q.n % q.d
                frac  == (rest * scale) \div q.d
                rem2  == (rest * scale) % q.d
                up    == IF 2 * rem2 >= q.d THEN 1 ELSE 0
            IN  [k |-> "str", n |-> whole * scale + frac + up, d |-> scale]

RECURSIVE SumSeq(_)
SumSeq(s) == IF s = <<>> THEN 0 ELSE Add(s[1], SumSeq(Tail(s)))

---------------------------------------------------------------------------
(* Inputs *)

AUTHORITIES == <<"firep", "mpa4">>

Voters == {"A", "B", "C", "D"}

Sentinel == "18446744073709551615"
DeactivationEpochs == {Sentinel, "712"}

\* the stake field of a delegation, in lamports
StakeStrings == {"500000000000", "1000000000000", "n/a"}

\* parseInt(del.stake) / 1e9
ParseStake(s) ==
    CASE s = "500000000000" -> 500
      [] s = "1000000000000" -> 1000
      [] s = "33000000000" -> 33
      [] s = "1000000000" -> 1
      [] OTHER -> NaN

\* the delegations of the stake accounts: voter A with 500 SOL, active or
\* deactivating, or with an unparsable stake; the other voters with an
\* active 1000 SOL
Delegations ==
    {d \in [stake : StakeStrings, voter : Voters, deactivationEpoch : DeactivationEpochs] :
        \/ d.voter = "A" /\ d.stake = "500000000000"
        \/ d.voter = "A" /\ d.stake = "n/a" /\ d.deactivationEpoch = Sentinel
        \/ d.voter # "A" /\ d.stake = "1000000000000" /\ d.deactivationEpoch = Sentinel}

\* acct.account?.data?.parsed?.info?.stake?.delegation, absent or present
StakeAccounts == {[delegation |-> None]} \cup {[delegation |-> Some(d)] : d \in Delegations}

---------------------------------------------------------------------------
(* The fold of one stake account *)

IndexOfVoter(vs, voter) ==
    IF \E i \in 1..Len(vs) : vs[i].voter = voter
    THEN CHOOSE i \in 1..Len(vs) : vs[i].voter = voter
    ELSE 0

NewValidator(voter) ==
    [voter |-> voter, activeStake |-> 0, deactivatingStake |-> 0, accounts |-> 0]

\* the fold with the two stake fields assigned instead of added to
FoldAccountAssign(st, acct) ==
    IF acct.delegation = None
    THEN [st EXCEPT !.totalEmpty = @ + 1]
    ELSE LET del == acct.delegation[1]
             stake == ParseStake(del.stake)
             deactivating == del.deactivationEpoch # Sentinel
             vs0 == IF IndexOfVoter(st.validators, del.voter) = 0
                    THEN Append(st.validators, NewValidator(del.voter))
                    ELSE st.validators
             i == IndexOfVoter(vs0, del.voter)
         IN  [st EXCEPT
                !.totalDeactivating = IF deactivating THEN Add(@, stake) ELSE @,
                !.totalActive = IF deactivating THEN @ ELSE Add(@, stake),
                !.validators = [vs0 EXCEPT
                    ![i].accounts = @ + 1,
                    ![i].deactivatingStake = IF deactivating THEN stake ELSE @,
                    ![i].activeStake = IF deactivating THEN @ ELSE stake]]

\* the fold that also counts an account without delegation for a voter
FoldAccountEmptyVoter(st, acct) ==
    IF acct.delegation = None
    THEN [st EXCEPT !.totalEmpty = @ + 1,
                    !.validators = IF IndexOfVoter(@, "A") = 0
                                   THEN Append(@, [NewValidator("A") EXCEPT !.accounts = 1])
                                   ELSE [@ EXCEPT ![IndexOfVoter(@, "A")].accounts = @ + 1]]
    ELSE LET del == acct.delegation[1]
             stake == ParseStake(del.stake)
             deactivating == del.deactivationEpoch # Sentinel
             vs0 == IF IndexOfVoter(st.validators, del.voter) = 0
                    THEN Append(st.validators, NewValidator(del.voter))
                    ELSE st.validators
             i == IndexOfVoter(vs0, del.voter)
         IN  [st EXCEPT
                !.totalDeactivating = IF deactivating THEN Add(@, stake) ELSE @,
                !.totalActive = IF deactivating THEN @ ELSE Add(@, stake),
                !.validators = [vs0 EXCEPT
                    ![i].accounts = @ + 1,
                    ![i].deactivatingStake = IF deactivating THEN Add(@, stake) ELSE @,
                    ![i].activeStake = IF deactivating THEN @ ELSE Add(@, stake)]]

\* the fold that adds a deactivating stake to activeStake as well
FoldAccountBoth(st, acct) ==
    IF acct.delegation = None
    THEN [st EXCEPT !.totalEmpty = @ + 1]
    ELSE LET del == acct.delegation[1]
             stake == ParseStake(del.stake)
             deactivating == del.deactivationEpoch # Sentinel
             vs0 == IF IndexOfVoter(st.validators, del.voter) = 0
                    THEN Append(st.validators, NewValidator(del.voter))
                    ELSE st.validators
             i == IndexOfVoter(vs0, del.voter)
         IN  [st EXCEPT
                !.totalDeactivating = IF deactivating THEN Add(@, stake) ELSE @,
                !.totalActive = IF deactivating THEN @ ELSE Add(@, stake),
                !.validators = [vs0 EXCEPT
                    ![i].accounts = @ + 1,
                    ![i].deactivatingStake = IF deactivating THEN Add(@, stake) ELSE @,
                    ![i].activeStake = Add(@, stake)]]

\* one iteration of `for (const acct of stakeAccounts)` on the loop state
\* st = [validators, totalActive, totalDeactivating, totalEmpty]
FoldAccount(st, acct) ==
    IF acct.delegation = None
    THEN [st EXCEPT !.totalEmpty = @ + 1]
    ELSE LET del == acct.delegation[1]
             stake == ParseStake(del.stake)
             deactivating == del.deactivationEpoch # Sentinel
             vs0 == IF IndexOfVoter(st.validators, del.voter) = 0
                    THEN Append(st.validators, NewValidator(del.voter))
                    ELSE st.validators
             i == IndexOfVoter(vs0, del.voter)
         IN  [st EXCEPT
                !.totalDeactivating = IF deactivating THEN Add(@, stake) ELSE @,
                !.totalActive = IF deactivating THEN @ ELSE Add(@, stake),
                !.validators = [vs0 EXCEPT
                    ![i].accounts = @ + 1,
                    ![i].deactivatingStake = IF deactivating THEN Add(@, stake) ELSE @,
                    ![i].activeStake = IF deactivating THEN @ ELSE Add(@, stake)]]

EmptyFold ==
    [validators |-> <<>>, totalActive |-> 0, totalDeactivating |-> 0, totalEmpty |-> 0]

RECURSIVE FoldAll(_, _)
FoldAll(st, accts) ==
    IF accts = <<>> THEN st ELSE FoldAll(FoldAccount(st, accts[1]), Tail(accts))

---------------------------------------------------------------------------
(* Array.prototype.sort with a comparator (b.key - a.key): stable; a NaN     *)
(* difference counts as 0.  When a NaN key sits beside two different numbers *)
(* the comparator is not consistent and the order is implementation-defined: *)
(* any permutation.                                                          *)

\* s with x put before the first element whose key is smaller than x's
RECURSIVE InsertDesc(_, _)
InsertDesc(s, x) ==
    IF s = <<>> THEN <<x>>
    ELSE IF Gt(x.key, s[1].key) THEN <<x>> \o s
    ELSE <<s[1]>> \o InsertDesc(Tail(s), x)

RECURSIVE SortKeyedFrom(_, _)
SortKeyedFrom(done, rest) ==
    IF rest = <<>> THEN done
    ELSE SortKeyedFrom(InsertDesc(done, rest[1]), Tail(rest))

ConsistentKeys(keyed) ==
    ~ (/\ \E i \in DOMAIN keyed : keyed[i].key = NaN
       /\ \E i, j \in DOMAIN keyed :
             keyed[i].key # NaN /\ keyed[j].key # NaN /\ keyed[i].key # keyed[j].key)

PermutationsOf(s) ==
    {[i \in 1..Len(s) |-> s[p[i]]] : p \in Permutations(1..Len(s))}

\* the stable order of s.sort((a, b) => key(b) - key(a)), keys[i] the key of s[i]
SortStable(s, keys) ==
    LET keyed == [i \in 1..Len(s) |-> [key |-> keys[i], val |-> s[i]]]
        sorted == SortKeyedFrom(<<>>, keyed)
    IN  [i \in 1..Len(s) |-> sorted[i].val]

\* the comparator key(b) - key(a) is consistent on s
SortDefined(s, keys) ==
    ConsistentKeys([i \in 1..Len(s) |-> [key |-> keys[i], val |-> s[i]]])

\* the orders s.sort((a, b) => key(b) - key(a)) may leave s in
SortOutcomes(s, keys) ==
    IF SortDefined(s, keys) THEN {SortStable(s, keys)} ELSE PermutationsOf(s)

ActiveStakesOf(vs) == [i \in 1..Len(vs) |-> vs[i].activeStake]
EntryStakesOf(es) == [i \in 1..Len(es) |-> es[i].stake]

\* Object.values(validators).sort((a, b) => b.activeStake - a.activeStake)
SortValidators(vs) == SortOutcomes(vs, ActiveStakesOf(vs))

\* ascending sort of numbers without NaN: [...stakes].sort((a, b) => a - b)
RECURSIVE InsertAsc(_, _)
InsertAsc(s, x) ==
    IF s = <<>> THEN <<x>>
    ELSE IF x < s[1] THEN <<x>> \o s
    ELSE <<s[1]>> \o InsertAsc(Tail(s), x)

RECURSIVE SortAscFrom(_, _)
SortAscFrom(done, rest) ==
    IF rest = <<>> THEN done ELSE SortAscFrom(InsertAsc(done, rest[1]), Tail(rest))

SortAsc(s) == SortAscFrom(<<>>, s)

\* Array.prototype.filter
RECURSIVE SelectSeqOf(_, _)
SelectSeqOf(s, keep) ==
    IF s = <<>> THEN <<>>
    ELSE (IF keep[1] THEN <<s[1]>> ELSE <<>>) \o SelectSeqOf(Tail(s), Tail(keep))

\* Array.prototype.slice(0, n)
Slice(s, n) == SubSeq(s, 1, IF n < Len(s) THEN n ELSE Len(s))

---------------------------------------------------------------------------
(* Validator metadata (stakewiz) and vote accounts *)

SwAlpha ==
    [name |-> Some("Alpha"), commission |-> Some(5), version |-> Some("2.0.1"),
     delinquent |-> FALSE, ip_country |-> Some("US"), ip_city |-> Some("NYC"),
     asn |-> None, ip_asn |-> Some("AS16509"), ip_org |-> Some("AWS"),
     is_jito |-> TRUE, jito_commission_bps |-> Some(1500), superminority_penalty |-> 0]

SwBeta ==
    [name |-> Some("Beta"), commission |-> Some(12), version |-> Some("2.0.1"),
     delinquent |-> TRUE, ip_country |-> Some("DE"), ip_city |-> Some("Berlin"),
     asn |-> Some("AS24940"), ip_asn |-> None, ip_org |-> None,
     is_jito |-> TRUE, jito_commission_bps |-> Some(800), superminority_penalty |-> 1]

SwGamma ==
    [name |-> None, commission |-> None, version |-> Some("1.18.0"),
     delinquent |-> FALSE, ip_country |-> Some("US"), ip_city |-> None,
     asn |-> None, ip_asn |-> None, ip_org |-> Some("AWS"),
     is_jito |-> FALSE, jito_commission_bps |-> None, superminority_penalty |-> 0]

\* what `await swRes.json()` may hold, keyed by vote_identity: full entries
\* for A and B, a partial one for C, none for D
ValMaps ==
    { [v \in Voters |-> CASE v = "A" -> Some(SwAlpha)
                          [] v = "B" -> Some(SwBeta)
                          [] v = "C" -> Some(SwGamma)
                          [] OTHER -> None] }

VaLow == [commission |-> 0, delinquent |-> FALSE]
VaHigh == [commission |-> 100, delinquent |-> TRUE]

\* what getVoteAccounts may hold, keyed by votePubkey
VoteMaps ==
    { [v \in Voters |-> CASE v = "A" -> Some(VaHigh)
                          [] v = "C" -> Some(VaLow)
                          [] OTHER -> None] }

\* x || null for a string, x || null for a number
StrOrNull(x) == IF x = None \/ x = Some("") THEN None ELSE x
NumOrNull(x) == IF x = None \/ x = Some(0) THEN None ELSE x

\* a ?? b
Coalesce(a, b) == IF a # None THEN a ELSE b

\* sorted.map(v => ({...v, name: ..., ...})) for one validator
Enrich(v, vm, vo, total) ==
    LET sw == vm[v.voter]
        va == vo[v.voter]
    IN  [voter |-> v.voter, activeStake |-> v.activeStake,
         deactivatingStake |-> v.deactivatingStake, accounts |-> v.accounts,
         name |-> IF sw = None THEN None ELSE StrOrNull(sw[1].name),
         commission |-> Coalesce(IF va = None THEN None ELSE Some(va[1].commission),
                                 IF sw = None THEN None ELSE sw[1].commission),
         version |-> IF sw = None THEN None ELSE StrOrNull(sw[1].version),
         delinquent |-> \/ (va # None /\ va[1].delinquent)
                        \/ (sw # None /\ sw[1].delinquent),
         country |-> IF sw = None THEN None ELSE StrOrNull(sw[1].ip_country),
         city |-> IF sw = None THEN None ELSE StrOrNull(sw[1].ip_city),
         asn |-> IF sw = None THEN None
                 ELSE Coalesce(StrOrNull(sw[1].asn), StrOrNull(sw[1].ip_asn)),
         asnOrg |-> IF sw = None THEN None ELSE StrOrNull(sw[1].ip_org),
         isJito |-> sw # None /\ sw[1].is_jito,
         jitoCommission |-> IF sw = None THEN None ELSE NumOrNull(sw[1].jito_commission_bps),
         superminority |-> sw # None /\ sw[1].superminority_penalty > 0,
         pctOfPool |-> IF Gt(total, 0) THEN Times100(Div(v.activeStake, total)) ELSE QZero]

---------------------------------------------------------------------------
(* Decentralization metrics of one authority *)

IsActive(v) == Gt(v.activeStake, 0)
ActiveOf(s) == SelectSeqOf(s, [i \in 1..Len(s) |-> IsActive(s[i])])

\* running >= total / 3, taken strictly
ReachesThirdStrict(running, total) ==
    running # NaN /\ total # NaN /\ 3 * running > total

\* running >= total / 3
ReachesThird(running, total) ==
    running # NaN /\ total # NaN /\ 3 * running >= total

\* for (const s of stakes) { running += s; nak33++; if (running >= total / 3) break; }
RECURSIVE NakamotoFrom(_, _, _, _)
NakamotoFrom(stakes, total, running, n) ==
    IF stakes = <<>> THEN n
    ELSE LET r == Add(running, stakes[1])
         IN  IF ReachesThird(r, total) THEN n + 1
             ELSE NakamotoFrom(Tail(stakes), total, r, n + 1)

Nakamoto33(stakes, total) == NakamotoFrom(stakes, total, 0, 0)

\* the sum of the stakes, not squared
SumPlain(s) == SumSeq(s)

RECURSIVE SumSquares(_)
SumSquares(s) == IF s = <<>> THEN 0 ELSE s[1] * s[1] + SumSquares(Tail(s))

\* stakes.forEach(s => { const sh = s / totalActive; hhi += sh * sh; })
\* over stakes that are all > 0
Hhi(stakes, total) ==
    IF stakes = <<>> THEN QZero
    ELSE IF total = NaN THEN QNaN
    ELSE IF total = 0 THEN QInf
    ELSE QNum(SumSquares(stakes), total * total)

\* the weights taken with the index counted from 0: 2 * (i - 1) - n - 1
RECURSIVE GiniSumFromZero(_, _, _)
GiniSumFromZero(asc, i, n) ==
    IF i > n THEN 0
    ELSE (2 * (i - 1) - n - 1) * asc[i] + GiniSumFromZero(asc, i + 1, n)

RECURSIVE GiniSumFrom(_, _, _)
GiniSumFrom(asc, i, n) ==
    IF i > n THEN 0 ELSE (2 * i - n - 1) * asc[i] + GiniSumFrom(asc, i + 1, n)

\* n > 0 ? giniSum / (n * asc.reduce((a, b) => a + b, 0)) : 0
Gini(stakes) ==
    LET n == Len(stakes)
        asc == SortAsc(stakes)
    IN  IF n > 0 THEN Div(GiniSumFrom(asc, 1, n), n * SumSeq(asc)) ELSE QZero

\* stakes[i] || 0, i counted from 0
AtOrZero(stakes, i) == IF i >= 0 /\ i + 1 <= Len(stakes) THEN stakes[i + 1] ELSE 0

\* the half-open stake ranges; max None is Infinity
Buckets ==
    << [label |-> "<1K", min |-> 0, max |-> Some(1000)],
       [label |-> "1K-10K", min |-> 1000, max |-> Some(10000)],
       [label |-> "10K-50K", min |-> 10000, max |-> Some(50000)],
       [label |-> "50K-100K", min |-> 50000, max |-> Some(100000)],
       [label |-> "100K-500K", min |-> 100000, max |-> Some(500000)],
       [label |-> "500K+", min |-> 500000, max |-> None] >>

\* the range test with the lower end excluded
InBucketOpen(stake, b) ==
    /\ Gt(stake, b.min)
    /\ IF b.max = None THEN stake # NaN ELSE Lt(stake, b.max[1])

\* v.activeStake >= b.min && v.activeStake < b.max
InBucket(stake, b) ==
    /\ Ge(stake, b.min)
    /\ IF b.max = None THEN stake # NaN ELSE Lt(stake, b.max[1])

\* the first bucket that takes the stake (break), 0 when none does
BucketOf(stake) ==
    IF \E i \in 1..Len(Buckets) : InBucket(stake, Buckets[i])
    THEN CHOOSE i \in 1..Len(Buckets) :
            /\ InBucket(stake, Buckets[i])
            /\ \A j \in 1..(i - 1) : ~ InBucket(stake, Buckets[j])
    ELSE 0

InBucketNo(i, v) == BucketOf(v.activeStake) = i

\* for (const v of activeVals) for (const b of buckets) ...
StakeBuckets(activeVals) ==
    [i \in 1..Len(Buckets) |->
        LET inB == SelectSeqOf(activeVals,
                       [j \in 1..Len(activeVals) |-> InBucketNo(i, activeVals[j])])
        IN  [label |-> Buckets[i].label, min |-> Buckets[i].min, max |-> Buckets[i].max,
             count |-> Len(inB), stake |-> SumSeq(ActiveStakesOf(inB))]]

---------------------------------------------------------------------------
(* Categorical dimensions *)

\* v.country || "", the missing country kept as the empty key
CountryKeyEmpty(v) == IF v.country = None THEN "" ELSE v.country[1]

\* v.country || "Unknown", ...
CountryKey(v) == IF v.country = None THEN "Unknown" ELSE v.country[1]
CityKey(v) == IF v.city = None THEN "Unknown" ELSE v.city[1]
AsnKey(v) ==
    IF v.asnOrg # None THEN v.asnOrg[1]
    ELSE IF v.asn # None THEN v.asn[1] ELSE "Unknown"
VersionKey(v) == IF v.version = None THEN "Unknown" ELSE v.version[1]
CommissionKey(v) == IF v.commission # None THEN ToString(v.commission[1]) ELSE "Unknown"

\* if (!obj[k]) obj[k] = { count: 0, stake: 0 }; obj[k].count++; obj[k].stake += stake
TallyAdd(tally, name, stake) ==
    IF \E i \in 1..Len(tally) : tally[i].name = name
    THEN LET i == CHOOSE i \in 1..Len(tally) : tally[i].name = name
         IN  [tally EXCEPT ![i].count = @ + 1, ![i].stake = Add(@, stake)]
    ELSE Append(tally, [name |-> name, count |-> 1, stake |-> stake])

\* if (v.activeStake <= 0) continue
SkippedInTally(v) == v.activeStake # NaN /\ v.activeStake <= 0

RECURSIVE TallyFrom(_, _, _)
TallyFrom(tally, vs, keys) ==
    IF vs = <<>> THEN tally
    ELSE IF SkippedInTally(vs[1]) THEN TallyFrom(tally, Tail(vs), Tail(keys))
    ELSE TallyFrom(TallyAdd(tally, keys[1], vs[1].activeStake), Tail(vs), Tail(keys))

CountryTally(vs) == TallyFrom(<<>>, vs, [i \in 1..Len(vs) |-> CountryKey(vs[i])])
CityTally(vs) == TallyFrom(<<>>, vs, [i \in 1..Len(vs) |-> CityKey(vs[i])])
AsnTally(vs) == TallyFrom(<<>>, vs, [i \in 1..Len(vs) |-> AsnKey(vs[i])])
VersionTally(vs) == TallyFrom(<<>>, vs, [i \in 1..Len(vs) |-> VersionKey(vs[i])])
CommissionTally(vs) == TallyFrom(<<>>, vs, [i \in 1..Len(vs) |-> CommissionKey(vs[i])])

\* (stake / total * 100).toFixed(2)
PctOf(stake, total) == ToFixed(Times100(Div(stake, total)), 100)

WithPct(tally, total) ==
    [i \in 1..Len(tally) |->
        [name |-> tally[i].name, count |-> tally[i].count, stake |-> tally[i].stake,
         pct |-> PctOf(tally[i].stake, total)]]

\* Object.entries(obj).map(...).sort((a, b) => b.stake - a.stake).  Nothing in
\* the program reads the order of a sorted tally (every slice taken of one is
\* longer than the tallies of Voters), so where the comparator is not
\* consistent (~ SortDefined) the list stands for every permutation of itself.
SortObj(tally, total) == SortStable(WithPct(tally, total), EntryStakesOf(tally))

\* Object.entries of the commission tally: the integer keys first, ascending
CommissionNumber(name) == CHOOSE n \in 0..100 : ToString(n) = name

RECURSIVE InsertByNumber(_, _)
InsertByNumber(s, x) ==
    IF s = <<>> THEN <<x>>
    ELSE IF s[1].name = "Unknown" THEN <<x>> \o s
    ELSE IF x.name # "Unknown" /\ CommissionNumber(x.name) < CommissionNumber(s[1].name)
         THEN <<x>> \o s
    ELSE <<s[1]>> \o InsertByNumber(Tail(s), x)

RECURSIVE CommissionEntriesFrom(_, _)
CommissionEntriesFrom(done, rest) ==
    IF rest = <<>> THEN done
    ELSE CommissionEntriesFrom(
            IF rest[1].name = "Unknown" THEN Append(done, rest[1])
            ELSE InsertByNumber(done, rest[1]),
            Tail(rest))

CommissionEntries(tally) == CommissionEntriesFrom(<<>>, tally)

---------------------------------------------------------------------------
(* The report of one authority: result.accounts[key] *)

Enriched(sorted, vm, vo, total) ==
    [i \in 1..Len(sorted) |-> Enrich(sorted[i], vm, vo, total)]

IsActiveJito(v) == v.isJito /\ Gt(v.activeStake, 0)
ActiveJitoOf(s) == SelectSeqOf(s, [i \in 1..Len(s) |-> IsActiveJito(s[i])])
IsActiveDelinquent(v) == v.delinquent /\ Gt(v.activeStake, 0)
ActiveDelinquentOf(s) == SelectSeqOf(s, [i \in 1..Len(s) |-> IsActiveDelinquent(s[i])])

AuthorityReport(k, n, st, sorted, enriched, countries, cities, asns, versions, commissions) ==
    LET activeVals == ActiveOf(sorted)
        stakes == ActiveStakesOf(activeVals)
        len == Len(stakes)
        jitoVals == ActiveJitoOf(enriched)
        jitoStake == SumSeq(ActiveStakesOf(jitoVals))
    IN  [key |-> k,
         totalAccounts |-> n,
         emptyAccounts |-> st.totalEmpty,
         totalActive |-> st.totalActive,
         totalDeactivating |-> st.totalDeactivating,
         activeValidators |-> Len(activeVals),
         decentralization |->
            [nakamotoCoeff33 |-> Nakamoto33(stakes, st.totalActive),
             hhi |-> Hhi(stakes, st.totalActive),
             gini |-> Gini(stakes),
             topValidatorPct |-> IF len > 0 THEN Times100(Div(stakes[1], st.totalActive))
                                 ELSE QZero,
             top10Pct |-> Times100(Div(SumSeq(Slice(stakes, 10)), st.totalActive))],
         stakeStats |->
            [mean |-> Div(st.totalActive, len),
             median |-> AtOrZero(stakes, len \div 2),
             max |-> AtOrZero(stakes, 0),
             min |-> AtOrZero(stakes, len - 1),
             p10 |-> AtOrZero(stakes, len \div 10),
             p90 |-> AtOrZero(stakes, (len * 9) \div 10)],
         stakeBuckets |-> StakeBuckets(activeVals),
         geographic |->
            [countries |-> countries,
             topCities |-> Slice(cities, 20),
             topASNs |-> Slice(asns, 20)],
         software |-> [versions |-> versions],
         commissionDistribution |-> commissions,
         jitoStats |->
            [validators |-> Len(jitoVals),
             stake |-> jitoStake,
             pct |-> PctOf(jitoStake, st.totalActive)],
         delinquentCount |-> Len(ActiveDelinquentOf(enriched)),
         validators |-> enriched]

\* the reports the body of `for (const [key, config] of ...)` may assemble
\* from the loop state st after n stake accounts
AuthorityReports(k, n, st, vm, vo) ==
    { LET enriched == Enriched(sorted, vm, vo, st.totalActive)
          total == st.totalActive
      IN  AuthorityReport(k, n, st, sorted, enriched,
              SortObj(CountryTally(enriched), total),
              SortObj(CityTally(enriched), total),
              SortObj(AsnTally(enriched), total),
              SortObj(VersionTally(enriched), total),
              SortObj(CommissionEntries(CommissionTally(enriched)), total))
      : sorted \in SortValidators(st.validators) }

---------------------------------------------------------------------------
(* The combined section: result.combined *)

\* sources[key] = stake
SetSource(sources, k, stake) ==
    IF \E i \in 1..Len(sources) : sources[i].key = k
    THEN LET i == CHOOSE i \in 1..Len(sources) : sources[i].key = k
         IN  [sources EXCEPT ![i].stake = stake]
    ELSE Append(sources, [key |-> k, stake |-> stake])

\* the body that keeps the last authority's stake instead of the sum
CombineAddLast(all, k, v) ==
    LET all0 == IF IndexOfVoter(all, v.voter) = 0
                THEN Append(all, [voter |-> v.voter, totalStake |-> 0, sources |-> <<>>,
                                  name |-> v.name, country |-> v.country, asn |-> v.asnOrg,
                                  commission |-> v.commission, version |-> v.version,
                                  isJito |-> v.isJito])
                ELSE all
        i == IndexOfVoter(all0, v.voter)
    IN  [all0 EXCEPT ![i].totalStake = v.activeStake,
                     ![i].sources = SetSource(@, k, v.activeStake)]

\* the body of `for (const v of data.validators)`, l.261-263
CombineAdd(all, k, v) ==
    LET all0 == IF IndexOfVoter(all, v.voter) = 0
                THEN Append(all, [voter |-> v.voter, totalStake |-> 0, sources |-> <<>>,
                                  name |-> v.name, country |-> v.country, asn |-> v.asnOrg,
                                  commission |-> v.commission, version |-> v.version,
                                  isJito |-> v.isJito])
                ELSE all
        i == IndexOfVoter(all0, v.voter)
    IN  [all0 EXCEPT ![i].totalStake = Add(@, v.activeStake),
                     ![i].sources = SetSource(@, k, v.activeStake)]

RECURSIVE CombineValidators(_, _, _)
CombineValidators(all, k, vs) ==
    IF vs = <<>> THEN all
    ELSE CombineValidators(CombineAdd(all, k, vs[1]), k, Tail(vs))

RECURSIVE CombineAccounts(_, _)
CombineAccounts(all, reports) ==
    IF reports = <<>> THEN all
    ELSE CombineAccounts(CombineValidators(all, reports[1].key, reports[1].validators),
                         Tail(reports))

TotalStakesOf(vs) == [i \in 1..Len(vs) |-> vs[i].totalStake]

\* the loop of l.273-278
RECURSIVE CombinedAsnTally(_, _)
CombinedAsnTally(tally, vs) ==
    IF vs = <<>> THEN tally
    ELSE CombinedAsnTally(
            TallyAdd(tally, IF vs[1].asn = None THEN "Unknown" ELSE vs[1].asn[1],
                     vs[1].totalStake),
            Tail(vs))

HasStake(v) == Gt(v.totalStake, 0)
WithStake(s) == SelectSeqOf(s, [i \in 1..Len(s) |-> HasStake(s[i])])

\* v.commission > 10
IsHighCommission(v) == v.commission # None /\ v.commission[1] > 10
HighCommissionOf(s) == SelectSeqOf(s, [i \in 1..Len(s) |-> IsHighCommission(s[i])])

\* v.isJito && v.jitoCommission > 1000 && v.activeStake > 0
IsJitoOverCap(v) ==
    v.isJito /\ v.jitoCommission # None /\ v.jitoCommission[1] > 1000 /\ Gt(v.activeStake, 0)
JitoOverCapOf(s) == SelectSeqOf(s, [i \in 1..Len(s) |-> IsJitoOverCap(s[i])])

JitoEntry(v) ==
    [voter |-> v.voter, name |-> v.name, jitoCommission |-> v.jitoCommission[1],
     stake |-> v.activeStake]

\* the loops of l.287-293
RECURSIVE JitoOverCap(_)
JitoOverCap(reports) ==
    IF reports = <<>> THEN <<>>
    ELSE LET over == JitoOverCapOf(reports[1].validators)
         IN  [i \in 1..Len(over) |-> JitoEntry(over[i])] \o JitoOverCap(Tail(reports))

ReportOf(reports, k) ==
    reports[CHOOSE i \in 1..Len(reports) : reports[i].key = k]

CombinedReport(reports, combinedSorted, asnSorted) ==
    LET combinedTotal == SumSeq(TotalStakesOf(combinedSorted))
        top3ASNStake == SumSeq([i \in 1..Len(Slice(asnSorted, 3)) |-> asnSorted[i].stake])
        allCombinedVals == WithStake(combinedSorted)
        highCommission == HighCommissionOf(allCombinedVals)
        jitoOverCap == JitoOverCap(reports)
        top == Slice(combinedSorted, 50)
        topA == Slice(asnSorted, 15)
    IN  [totalActiveStake |-> combinedTotal,
         uniqueValidators |-> Len(combinedSorted),
         nakamotoCoeff33 |-> Nakamoto33(TotalStakesOf(combinedSorted), combinedTotal),
         topValidators |->
            [i \in 1..Len(top) |->
                [voter |-> top[i].voter, totalStake |-> top[i].totalStake,
                 sources |-> top[i].sources, name |-> top[i].name,
                 country |-> top[i].country, asn |-> top[i].asn,
                 commission |-> top[i].commission, version |-> top[i].version,
                 isJito |-> top[i].isJito,
                 pctOfTotal |-> PctOf(top[i].totalStake, combinedTotal)]],
         infraConcentration |->
            [topASNs |-> [i \in 1..Len(topA) |->
                            [name |-> topA[i].name, count |-> topA[i].count,
                             stake |-> topA[i].stake,
                             pct |-> PctOf(topA[i].stake, combinedTotal)]],
             top3ASNPct |-> ToFixed(Times100(Div(top3ASNStake, combinedTotal)), 10),
             uniqueASNs |-> Len(asnSorted)],
         commissionCompliance |->
            [highCommissionCount |-> Len(highCommission),
             highCommission |->
                [i \in 1..Len(highCommission) |->
                    [voter |-> highCommission[i].voter, name |-> highCommission[i].name,
                     commission |-> highCommission[i].commission,
                     stake |-> highCommission[i].totalStake]],
             jitoOverCapCount |-> Len(jitoOverCap),
             jitoOverCap |-> jitoOverCap],
         validatorEconomics |->
            [medianStakeSOL |-> ReportOf(reports, "mpa4").stakeStats.median,
             validatorsInProgram |-> Len(allCombinedVals)]]

\* Object.values(combinedASNs).sort((a, b) => b.stake - a.stake)
SortAsns(tally) == SortStable(tally, EntryStakesOf(tally))

\* the combined sections l.257-341 may assemble from result.accounts
CombinedReports(reports) ==
    LET allVals == CombineAccounts(<<>>, reports)
    IN  { CombinedReport(reports, combinedSorted,
                         SortAsns(CombinedAsnTally(<<>>, combinedSorted)))
          : combinedSorted \in SortOutcomes(allVals, TotalStakesOf(allVals)) }

---------------------------------------------------------------------------
(* The run of main() *)

NoMap == [v \in Voters |-> None]

LoopState ==
    [validators |-> validators, totalActive |-> totalActive,
     totalDeactivating |-> totalDeactivating, totalEmpty |-> totalEmpty]

Init ==
    /\ pc = "epochInfo"
    /\ valMap = NoMap
    /\ voteMap = NoMap
    /\ key = 1
    /\ accounts = <<>>
    /\ idx = 0
    /\ nFetched = 0
    /\ validators = <<>>
    /\ totalActive = 0
    /\ totalDeactivating = 0
    /\ totalEmpty = 0
    /\ result = <<>>
    /\ combined = None
    /\ written = {}

\* const epochInfo = await rpc("getEpochInfo", [])
FetchEpochInfo ==
    /\ pc = "epochInfo"
    /\ pc' = "validators"
    /\ UNCHANGED <<valMap, voteMap, key, accounts, idx, nFetched, validators,
                   totalActive, totalDeactivating, totalEmpty, result, combined, written>>

\* the stakewiz fetch and the loop that fills valMap
FetchValidators ==
    /\ pc = "validators"
    /\ valMap' \in ValMaps
    /\ pc' = "voteAccounts"
    /\ UNCHANGED <<voteMap, key, accounts, idx, nFetched, validators,
                   totalActive, totalDeactivating, totalEmpty, result, combined, written>>

\* getVoteAccounts and the loops that fill voteMap
FetchVoteAccounts ==
    /\ pc = "voteAccounts"
    /\ voteMap' \in VoteMaps
    /\ pc' = "blockProduction"
    /\ UNCHANGED <<valMap, key, accounts, idx, nFetched, validators,
                   totalActive, totalDeactivating, totalEmpty, result, combined, written>>

\* getBlockProduction
FetchBlockProduction ==
    /\ pc = "blockProduction"
    /\ pc' = "stakeAccounts"
    /\ UNCHANGED <<valMap, voteMap, key, accounts, idx, nFetched, validators,
                   totalActive, totalDeactivating, totalEmpty, result, combined, written>>

\* const stakeAccounts = await getStakeAccounts(config.authority), and the
\* fresh accumulators of this authority
GetStakeAccounts ==
    /\ pc = "stakeAccounts"
    /\ pc' = "fold"
    /\ idx' = 0
    /\ validators' = <<>>
    /\ totalActive' = 0
    /\ totalDeactivating' = 0
    /\ totalEmpty' = 0
    /\ UNCHANGED <<valMap, voteMap, key, accounts, nFetched, result, combined, written>>

\* a rejected fetch that leaves what was collected so far in latest.json
FetchFailPartial ==
    /\ pc \in {"epochInfo", "validators", "voteAccounts", "blockProduction", "stakeAccounts"}
    /\ pc' = "exit1"
    /\ written' = {"latest.json"}
    /\ UNCHANGED <<valMap, voteMap, key, accounts, idx, nFetched, validators,
                   totalActive, totalDeactivating, totalEmpty, result, combined>>

\* a rejected fetch: main().catch(e => { console.error(e); process.exit(1); })
FetchFail ==
    /\ pc \in {"epochInfo", "validators", "voteAccounts", "blockProduction", "stakeAccounts"}
    /\ pc' = "exit1"
    /\ UNCHANGED <<valMap, voteMap, key, accounts, idx, nFetched, validators,
                   totalActive, totalDeactivating, totalEmpty, result, combined, written>>

\* the loop state after acct
Folded(acct) ==
    LET st == FoldAccount(LoopState, acct)
    IN  /\ validators' = st.validators
        /\ totalActive' = st.totalActive
        /\ totalDeactivating' = st.totalDeactivating
        /\ totalEmpty' = st.totalEmpty
        /\ idx' = idx + 1
        /\ nFetched' = nFetched + 1

\* one iteration of `for (const acct of stakeAccounts)`
Fold ==
    /\ pc = "fold"
    /\ nFetched < MaxAccounts
    /\ \E acct \in StakeAccounts : Folded(acct)
    /\ UNCHANGED <<pc, valMap, voteMap, key, accounts, result, combined, written>>

\* the rest of the body of the loop over AUTHORITIES, after the last account
Analyze ==
    /\ pc = "fold"
    /\ result' \in {Append(result, r) :
                      r \in AuthorityReports(AUTHORITIES[key], idx, LoopState, valMap, voteMap)}
    /\ key' = key + 1
    /\ pc' = IF key < Len(AUTHORITIES) THEN "stakeAccounts" ELSE "combine"
    /\ UNCHANGED <<valMap, voteMap, accounts, idx, nFetched, validators,
                   totalActive, totalDeactivating, totalEmpty, combined, written>>

\* the rest of main() after the loop, which runs without an await: the
\* combined section l.257-341 and the two fs.writeFileSync calls
Combine ==
    /\ pc = "combine"
    /\ combined' \in {Some(c) : c \in CombinedReports(result)}
    /\ written' = {"latest.json", "snapshot.json"}
    /\ pc' = "done"
    /\ UNCHANGED <<valMap, voteMap, key, accounts, idx, nFetched, validators,
                   totalActive, totalDeactivating, totalEmpty, result>>

Next ==
    \/ FetchEpochInfo
    \/ FetchValidators
    \/ FetchVoteAccounts
    \/ FetchBlockProduction
    \/ GetStakeAccounts
    \/ FetchFail
    \/ Fold
    \/ Analyze
    \/ Combine

Spec == Init /\ [][Next]_vars

---------------------------------------------------------------------------
(* The analysis of one authority on a list of stake accounts that is known  *)
(* from the start: the body of the loop over AUTHORITIES for one key.       *)

AccountLists == UNION {[1..n -> StakeAccounts] : n \in 0..MaxList}

InitList ==
    /\ pc = "fold"
    /\ valMap \in ValMaps
    /\ voteMap \in VoteMaps
    /\ key = 1
    /\ accounts \in AccountLists
    /\ idx = 0
    /\ nFetched = 0
    /\ validators = <<>>
    /\ totalActive = 0
    /\ totalDeactivating = 0
    /\ totalEmpty = 0
    /\ result = <<>>
    /\ combined = None
    /\ written = {}

\* one iteration of `for (const acct of stakeAccounts)`
FoldListed ==
    /\ pc = "fold"
    /\ idx < Len(accounts)
    /\ Folded(accounts[idx + 1])
    /\ UNCHANGED <<pc, valMap, voteMap, key, accounts, result, combined, written>>

\* the rest of the body of the loop, after the last account
AnalyzeListed ==
    /\ pc = "fold"
    /\ idx = Len(accounts)
    /\ result' \in {Append(result, r) :
                      r \in AuthorityReports(AUTHORITIES[key], idx, LoopState, valMap, voteMap)}
    /\ pc' = "analyzed"
    /\ UNCHANGED <<valMap, voteMap, key, accounts, idx, nFetched, validators,
                   totalActive, totalDeactivating, totalEmpty, combined, written>>

NextList == FoldListed \/ AnalyzeListed

SpecList == InitList /\ [][NextList]_vars

---------------------------------------------------------------------------
(* The basic SFDP collector of collect-network.js: analyzeStakeAccounts on  *)
(* the stake accounts of one authority.  Its fold (l.297-332) keeps the     *)
(* aggregates of FoldAccount under the names of l.318-325; what the         *)
(* analysis returns is modelled up to the fields of l.405-417 and           *)
(* allValidators.                                                           *)

\* the delegations of this collector's input: small stakes in whole SOL,
\* all active; voter B may carry a stake that does not parse
NetworkDelegations ==
    {d \in [stake : {"33000000000", "1000000000", "n/a"}, voter : Voters,
            deactivationEpoch : {Sentinel}] :
        \/ d.voter = "A" /\ d.stake \in {"33000000000", "1000000000"}
        \/ d.voter = "B" /\ d.stake \in {"33000000000", "n/a"}
        \/ d.voter = "C" /\ d.stake = "33000000000"
        \/ d.voter = "D" /\ d.stake = "1000000000"}

NetworkAccounts == {[delegation |-> Some(d)] : d \in NetworkDelegations}

NetworkAccountLists == UNION {[1..n -> NetworkAccounts] : n \in 0..MaxNetList}

\* running >= totalActive * 0.34
ReachesSuperminorityAbove(running, total) ==
    running # NaN /\ total # NaN /\ 100 * running >= 34 * total

\* running >= totalActive * 0.33
ReachesSuperminority(running, total) ==
    running # NaN /\ total # NaN /\ 100 * running >= 33 * total

\* for (const s of activeStakes) { running += s; superminority++;
\*   if (running >= totalActive * 0.33) break; }
RECURSIVE SuperminorityFrom(_, _, _, _)
SuperminorityFrom(stakes, total, running, n) ==
    IF stakes = <<>> THEN n
    ELSE LET r == Add(running, stakes[1])
         IN  IF ReachesSuperminority(r, total) THEN n + 1
             ELSE SuperminorityFrom(Tail(stakes), total, r, n + 1)

Superminority(stakes, total) == SuperminorityFrom(stakes, total, 0, 0)

\* what analyzeStakeAccounts returns for the fold st of n accounts when the
\* sort leaves the validators in the order sortedValidators
NetworkAnalysis(n, st, sortedValidators) ==
    LET activeValidators == ActiveOf(sortedValidators)
        activeStakes == ActiveStakesOf(activeValidators)
        len == Len(activeStakes)
    IN  [totalAccounts |-> n,
         emptyAccounts |-> st.totalEmpty,
         totalActive |-> st.totalActive,
         totalDeactivating |-> st.totalDeactivating,
         uniqueValidators |-> Len(st.validators),
         activeValidators |-> len,
         decentralization |->
            [nakamotoCoeff33 |-> Nakamoto33(activeStakes, st.totalActive),
             superminorityCount |-> Superminority(activeStakes, st.totalActive),
             hhi |-> Hhi(activeStakes, st.totalActive),
             gini |-> Gini(activeStakes)],
         stakeStats |->
            [mean |-> Div(st.totalActive, len),
             median |-> AtOrZero(activeStakes, len \div 2),
             max |-> AtOrZero(activeStakes, 0),
             min |-> AtOrZero(activeStakes, len - 1),
             p10 |-> AtOrZero(activeStakes, len \div 10),
             p90 |-> AtOrZero(activeStakes, (len * 9) \div 10)],
         allValidators |->
            [i \in 1..Len(sortedValidators) |->
                [voter |-> sortedValidators[i].voter,
                 activeStake |-> sortedValidators[i].activeStake,
                 deactivatingStake |-> sortedValidators[i].deactivatingStake,
                 stakeAccounts |-> sortedValidators[i].accounts]]]

NetworkAnalyses(n, st) ==
    {NetworkAnalysis(n, st, sortedValidators) :
        sortedValidators \in SortValidators(st.validators)}

InitNetwork ==
    /\ pc = "fold"
    /\ valMap = NoMap
    /\ voteMap = NoMap
    /\ key = 1
    /\ accounts \in NetworkAccountLists
    /\ idx = 0
    /\ nFetched = 0
    /\ validators = <<>>
    /\ totalActive = 0
    /\ totalDeactivating = 0
    /\ totalEmpty = 0
    /\ result = <<>>
    /\ combined = None
    /\ written = {}

\* the rest of analyzeStakeAccounts, after the last account
AnalyzeNetwork ==
    /\ pc = "fold"
    /\ idx = Len(accounts)
    /\ result' \in {<<a>> : a \in NetworkAnalyses(idx, LoopState)}
    /\ pc' = "analyzed"
    /\ UNCHANGED <<valMap, voteMap, key, accounts, idx, nFetched, validators,
                   totalActive, totalDeactivating, totalEmpty, combined, written>>

NextNetwork == FoldListed \/ AnalyzeNetwork

SpecNetwork == InitNetwork /\ [][NextNetwork]_vars

---------------------------------------------------------------------------
(* Properties of the per-authority analysis *)

RECURSIVE SumOver(_, _)
SumOver(stakes, I) ==
    IF I = {} THEN 0
    ELSE LET i == CHOOSE i \in I : TRUE
         IN  stakes[i] + SumOver(stakes, I \ {i})

\* the sum of the k largest of the stakes, whatever their order
LargestSum(stakes, k) ==
    LET sums == {SumOver(stakes, I) : I \in {J \in SUBSET DOMAIN stakes : Cardinality(J) = k}}
    IN  CHOOSE m \in sums : \A x \in sums : x <= m

ActiveStakesIn(r) == ActiveStakesOf(ActiveOf(r.validators))

\* C1: in every per-authority report with totalActive > 0 and at least one
\* active validator, nakamotoCoeff33 is a k with 1 <= k <= activeValidators
\* such that the k largest active stakes sum to at least a third of
\* totalActive while the k - 1 largest sum to strictly less than a third.
C1_NakamotoMinimal ==
    \A i \in 1..Len(result) :
        LET r == result[i]
            stakes == ActiveStakesIn(r)
            k == r.decentralization.nakamotoCoeff33
        IN  (Gt(r.totalActive, 0) /\ Len(stakes) > 0) =>
                /\ 1 <= k
                /\ k <= r.activeValidators
                /\ r.activeValidators = Len(stakes)
                /\ 3 * LargestSum(stakes, k) >= r.totalActive
                /\ 3 * LargestSum(stakes, k - 1) < r.totalActive

\* a report of four active validators where the largest one holds less than
\* a third and the two largest hold more
C1_Witness ==
    \E i \in 1..Len(result) :
        /\ Gt(result[i].totalActive, 0)
        /\ result[i].activeValidators = 4
        /\ result[i].decentralization.nakamotoCoeff33 = 2

\* the aggregate of voter in the map, the fresh one when it has none
AggregateOf(vs, voter) ==
    IF IndexOfVoter(vs, voter) = 0 THEN NewValidator(voter)
    ELSE vs[IndexOfVoter(vs, voter)]

C2_Step ==
    (pc = "fold" /\ idx' = idx + 1 /\ accounts[idx + 1].delegation # None) =>
        LET del == accounts[idx + 1].delegation[1]
            stake == ParseStake(del.stake)
            old == AggregateOf(validators, del.voter)
            new == AggregateOf(validators', del.voter)
        IN  /\ IndexOfVoter(validators', del.voter) # 0
            /\ \A i, j \in 1..Len(validators') :
                  validators'[i].voter = validators'[j].voter => i = j
            /\ new.accounts = old.accounts + 1
            /\ IF del.deactivationEpoch = Sentinel
               THEN /\ new.activeStake = Add(old.activeStake, stake)
                    /\ new.deactivatingStake = old.deactivatingStake
               ELSE /\ new.deactivatingStake = Add(old.deactivatingStake, stake)
                    /\ new.activeStake = old.activeStake
            /\ \A w \in Voters \ {del.voter} :
                  /\ (IndexOfVoter(validators', w) = 0) = (IndexOfVoter(validators, w) = 0)
                  /\ AggregateOf(validators', w) = AggregateOf(validators, w)

\* C2: folding a stake account that has a delegation creates the aggregate of
\* its voter if none exists (one aggregate per voter), increments that
\* aggregate's account count by one and adds the stake to exactly one of
\* activeStake (deactivationEpoch is the sentinel string) and
\* deactivatingStake (any other value), never to both; no other aggregate
\* changes.
C2_ActiveOrDeactivating == [][C2_Step]_vars

\* a voter whose aggregate has received an active and a deactivating account
C2_Witness ==
    \E i \in 1..Len(validators) :
        /\ Gt(validators[i].activeStake, 0)
        /\ Gt(validators[i].deactivatingStake, 0)
        /\ validators[i].accounts >= 2

\* what the fold keeps of a validator
AggregatesOf(vs) ==
    {[voter |-> vs[i].voter, activeStake |-> vs[i].activeStake,
      deactivatingStake |-> vs[i].deactivatingStake, accounts |-> vs[i].accounts]
        : i \in 1..Len(vs)}

\* C3: the set of per-voter aggregates and the totals totalActive,
\* totalDeactivating and emptyAccounts of a report are those of the fold of
\* any reordering of the stake accounts it was computed from.
C3_OrderIndependent ==
    pc = "analyzed" =>
        \A p \in Permutations(1..Len(accounts)) :
            LET st == FoldAll(EmptyFold, [i \in 1..Len(accounts) |-> accounts[p[i]]])
                r == result[1]
            IN  /\ AggregatesOf(st.validators) = AggregatesOf(r.validators)
                /\ Len(st.validators) = Len(r.validators)
                /\ st.totalActive = r.totalActive
                /\ st.totalDeactivating = r.totalDeactivating
                /\ st.totalEmpty = r.emptyAccounts

\* a report from three accounts of two voters, two of them of the same voter
\* and apart from each other in the list
C3_Witness ==
    /\ pc = "analyzed"
    /\ Len(accounts) = 3
    /\ Len(validators) = 2
    /\ accounts[1] # accounts[3]
    /\ accounts[1].delegation # None
    /\ accounts[3].delegation # None
    /\ accounts[1].delegation[1].voter = accounts[3].delegation[1].voter

HasDelegation(acct) == acct.delegation # None
DelegatedOf(s) == SelectSeqOf(s, [i \in 1..Len(s) |-> HasDelegation(s[i])])
HasNoDelegation(acct) == acct.delegation = None
UndelegatedOf(s) == SelectSeqOf(s, [i \in 1..Len(s) |-> HasNoDelegation(s[i])])

RECURSIVE SumAccounts(_)
SumAccounts(vs) == IF vs = <<>> THEN 0 ELSE vs[1].accounts + SumAccounts(Tail(vs))

\* C4: stake accounts without a delegation only count in emptyAccounts: the
\* aggregates and the stake totals are those of the accounts that have a
\* delegation, and totalAccounts = emptyAccounts + the sum of the account
\* counts of all validators, in the loop and in the report.
C4_EmptyAccounts ==
    LET seen == SubSeq(accounts, 1, idx)
        st == FoldAll(EmptyFold, DelegatedOf(seen))
    IN  /\ totalEmpty = Len(UndelegatedOf(seen))
        /\ validators = st.validators
        /\ totalActive = st.totalActive
        /\ totalDeactivating = st.totalDeactivating
        /\ idx = totalEmpty + SumAccounts(validators)
        /\ \A i \in 1..Len(result) :
              /\ result[i].totalAccounts = Len(accounts)
              /\ result[i].emptyAccounts = totalEmpty
              /\ result[i].totalAccounts
                    = result[i].emptyAccounts + SumAccounts(result[i].validators)

\* a report of a list that starts with an account without delegation and
\* goes on with delegated ones
C4_Witness ==
    /\ pc = "analyzed"
    /\ Len(accounts) = 3
    /\ accounts[1].delegation = None
    /\ result[1].emptyAccounts = 1
    /\ Len(result[1].validators) >= 1

\* the stake lies in the half-open range of the bucket
InRange(stake, b) == stake >= b.min /\ (b.max = None \/ stake < b.max[1])

\* C5: in every per-authority report each validator with activeStake > 0 lies
\* in the range min <= activeStake < max of exactly one stake bucket and is
\* counted there, so the bucket counts sum to activeValidators and the bucket
\* stakes sum to the active stake of those validators.
C5_BucketsPartition ==
    \A i \in 1..Len(result) :
        LET r == result[i]
            act == ActiveOf(r.validators)
            bs == r.stakeBuckets
            members == [b \in 1..Len(bs) |->
                          {j \in 1..Len(act) : InRange(act[j].activeStake, bs[b])}]
        IN  /\ \A j \in 1..Len(act) :
                  Cardinality({b \in 1..Len(bs) : j \in members[b]}) = 1
            /\ \A b \in 1..Len(bs) :
                  /\ bs[b].count = Cardinality(members[b])
                  /\ bs[b].stake = SumOver(ActiveStakesOf(act), members[b])
            /\ r.activeValidators = Len(act)
            /\ SumSeq([b \in 1..Len(bs) |-> bs[b].count]) = r.activeValidators
            /\ SumSeq([b \in 1..Len(bs) |-> bs[b].stake]) = SumSeq(ActiveStakesOf(act))

\* a report with a validator below 1000 SOL and two validators at exactly
\* 1000 SOL, the lower end of the second bucket
C5_Witness ==
    \E i \in 1..Len(result) :
        /\ result[i].activeValidators = 3
        /\ result[i].stakeBuckets[1].count = 1
        /\ result[i].stakeBuckets[2].count = 2
        /\ result[i].stakeBuckets[2].stake = 2000

EntryCountsOf(es) == [i \in 1..Len(es) |-> es[i].count]

\* the five categorical breakdowns of a report
DimensionsOf(r) ==
    << r.geographic.countries, r.geographic.topCities, r.geographic.topASNs,
       r.software.versions, r.commissionDistribution >>

\* the category stakes sum to totalActive and the category counts to the
\* number of validators with activeStake > 0
C6_StakesAndCounts ==
    \A i \in 1..Len(result) :
        Gt(result[i].totalActive, 0) =>
            \A d \in 1..5 :
                LET es == DimensionsOf(result[i])[d]
                IN  /\ SumSeq(EntryStakesOf(es)) = result[i].totalActive
                    /\ SumSeq(EntryCountsOf(es)) = result[i].activeValidators

\* the reported percentages of a dimension sum to 100 (pct.n counts hundredths)
C6_Percentages ==
    \A i \in 1..Len(result) :
        Gt(result[i].totalActive, 0) =>
            \A d \in 1..5 :
                LET es == DimensionsOf(result[i])[d]
                IN  /\ \A e \in 1..Len(es) : es[e].pct.k = "str" /\ es[e].pct.d = 100
                    /\ SumSeq([e \in 1..Len(es) |-> es[e].pct.n]) = 100 * 100

\* C6: in a per-authority report with totalActive > 0, for each of country,
\* city, ASN, software version and commission, the category stakes sum to
\* totalActive, the percentages sum to 100 and the category counts sum to the
\* number of validators with activeStake > 0.
C6_CategoriesSumUp == C6_StakesAndCounts /\ C6_Percentages

\* what JSON.stringify writes for the value is 0, "0.00" or null (a number
\* that is NaN or infinite is written as null, the string "NaN" is not)
IsZeroOrNull(q) ==
    \/ q.k \in {"nan", "inf"}
    \/ q.k \in {"num", "str"} /\ q.n = 0

\* C7: a report whose total active stake is zero has activeValidators = 0 and
\* every metric, percentage and ratio in it (nakamotoCoeff33, hhi, gini,
\* topValidatorPct, top10Pct, mean, median, the category and Jito
\* percentages, pctOfTotal) is 0 or null.
C7_ZeroTotalDegrades ==
    /\ \A i \in 1..Len(result) :
          LET r == result[i]
          IN  r.totalActive = 0 =>
                /\ r.activeValidators = 0
                /\ r.decentralization.nakamotoCoeff33 = 0
                /\ IsZeroOrNull(r.decentralization.hhi)
                /\ IsZeroOrNull(r.decentralization.gini)
                /\ IsZeroOrNull(r.decentralization.topValidatorPct)
                /\ IsZeroOrNull(r.decentralization.top10Pct)
                /\ IsZeroOrNull(r.stakeStats.mean)
                /\ r.stakeStats.median = 0
                /\ \A d \in 1..5 : \A e \in 1..Len(DimensionsOf(r)[d]) :
                      IsZeroOrNull(DimensionsOf(r)[d][e].pct)
                /\ IsZeroOrNull(r.jitoStats.pct)
                /\ \A j \in 1..Len(r.validators) : IsZeroOrNull(r.validators[j].pctOfPool)
    /\ (combined # None /\ combined[1].totalActiveStake = 0) =>
          /\ \A j \in 1..Len(combined[1].topValidators) :
                IsZeroOrNull(combined[1].topValidators[j].pctOfTotal)
          /\ IsZeroOrNull(combined[1].infraConcentration.top3ASNPct)

\* the ASN key of a combined validator: v.asn || 'Unknown'
CombinedAsnKey(v) == IF v.asn = None THEN "Unknown" ELSE v.asn[1]

\* the category counts of every dimension of r count validators of vs only
CountsOnlyOf(r, vs) ==
    /\ \A e \in 1..Len(r.geographic.countries) :
          r.geographic.countries[e].count = Cardinality({j \in 1..Len(vs) :
              CountryKey(vs[j]) = r.geographic.countries[e].name})
    /\ \A e \in 1..Len(r.geographic.topCities) :
          r.geographic.topCities[e].count = Cardinality({j \in 1..Len(vs) :
              CityKey(vs[j]) = r.geographic.topCities[e].name})
    /\ \A e \in 1..Len(r.geographic.topASNs) :
          r.geographic.topASNs[e].count = Cardinality({j \in 1..Len(vs) :
              AsnKey(vs[j]) = r.geographic.topASNs[e].name})

\* the per-authority part: the figures are those of the validators with
\* activeStake > 0, the validator list keeps all of them
C8_PerAuthority ==
    \A i \in 1..Len(result) :
        LET r == result[i]
            pos == ActiveOf(r.validators)
        IN  r.totalActive # NaN =>
              /\ r.decentralization.nakamotoCoeff33
                    = Nakamoto33(ActiveStakesOf(pos), r.totalActive)
              /\ CountsOnlyOf(r, pos)
              /\ r.totalAccounts = r.emptyAccounts + SumAccounts(r.validators)

\* the combined part: the figures are those of the combined validators with
\* totalStake > 0
C8_Combined ==
    (combined # None /\ combined[1].totalActiveStake # NaN) =>
        LET c == combined[1]
            pos == WithStake(c.topValidators)
            asns == c.infraConcentration.topASNs
        IN  /\ c.nakamotoCoeff33 = Nakamoto33(TotalStakesOf(pos), c.totalActiveStake)
            /\ c.infraConcentration.uniqueASNs
                  = Cardinality({CombinedAsnKey(pos[j]) : j \in 1..Len(pos)})
            /\ \A e \in 1..Len(asns) :
                  asns[e].count = Cardinality({j \in 1..Len(pos) :
                                                  CombinedAsnKey(pos[j]) = asns[e].name})

\* C8: validators whose active stake is zero contribute to no concentration
\* metric, per authority and combined: the Nakamoto coefficient, the category
\* counts, the ASN counts and uniqueASNs are what they are with every
\* zero-stake validator removed, while the raw lists and counts keep them.
C8_ZeroStakeExcluded == C8_PerAuthority /\ C8_Combined

VotersIn(r) == {r.validators[j].voter : j \in 1..Len(r.validators)}

\* the active stake of voter w under the authority of report r
StakeIn(r, w) == IF w \in VotersIn(r) THEN AggregateOf(r.validators, w).activeStake ELSE 0

\* C9: the combined section has exactly one entry per voter that appears
\* under any authority; its totalStake is the sum of the voter's activeStake
\* over the authorities and the sum of the values of its sources, which has
\* one entry per authority the voter appears under; totalActiveStake is the
\* sum of the entries' totalStake.
C9_CombinedByVoter ==
    combined # None =>
        LET c == combined[1]
            top == c.topValidators
        IN  /\ \A i, j \in 1..Len(top) : top[i].voter = top[j].voter => i = j
            /\ {top[i].voter : i \in 1..Len(top)}
                  = UNION {VotersIn(result[k]) : k \in 1..Len(result)}
            /\ c.uniqueValidators = Len(top)
            /\ c.totalActiveStake = SumSeq(TotalStakesOf(top))
            /\ \A i \in 1..Len(top) :
                  LET w == top[i].voter
                      src == top[i].sources
                      from == {k \in 1..Len(result) : w \in VotersIn(result[k])}
                  IN  /\ top[i].totalStake
                            = SumSeq([k \in 1..Len(result) |-> StakeIn(result[k], w)])
                      /\ top[i].totalStake = SumSeq(EntryStakesOf(src))
                      /\ Len(src) = Cardinality(from)
                      /\ {src[n].key : n \in 1..Len(src)} = {result[k].key : k \in from}
                      /\ \A n \in 1..Len(src) :
                            src[n].stake = StakeIn(ReportOf(result, src[n].key), w)

\* a combined section with a voter that holds stake under both authorities
\* and a voter that appears under one only
C9_Witness ==
    /\ combined # None
    /\ \E i, j \in 1..Len(combined[1].topValidators) :
          /\ Len(combined[1].topValidators[i].sources) = 2
          /\ combined[1].topValidators[i].totalStake = 2000
          /\ Len(combined[1].topValidators[j].sources) = 1
          /\ Gt(combined[1].topValidators[j].totalStake, 0)

\* sw.jito_commission_bps of the voter, as the reports carry it
JitoBpsOf(w) ==
    LET k == CHOOSE k \in 1..Len(result) : w \in VotersIn(result[k])
    IN  AggregateOf(result[k].validators, w).jitoCommission

\* C10: highCommission and jitoOverCap each hold a voter at most once, hold
\* exactly the combined validators with positive combined stake whose
\* commission exceeds 10 (whose Jito commission exceeds 1000 bps), and report
\* the combined stake of the validator.
C10_ComplianceFilters ==
    (combined # None /\ combined[1].totalActiveStake # NaN) =>
        LET c == combined[1]
            pos == WithStake(c.topValidators)
            hc == c.commissionCompliance.highCommission
            jo == c.commissionCompliance.jitoOverCap
            combinedStake(w) == AggregateOf(c.topValidators, w).totalStake
        IN  /\ \A i, j \in 1..Len(hc) : hc[i].voter = hc[j].voter => i = j
            /\ {hc[i].voter : i \in 1..Len(hc)}
                  = {pos[j].voter : j \in {n \in 1..Len(pos) : IsHighCommission(pos[n])}}
            /\ \A i \in 1..Len(hc) : hc[i].stake = combinedStake(hc[i].voter)
            /\ c.commissionCompliance.highCommissionCount = Len(hc)
            /\ \A i, j \in 1..Len(jo) : jo[i].voter = jo[j].voter => i = j
            /\ {jo[i].voter : i \in 1..Len(jo)}
                  = {pos[j].voter : j \in {n \in 1..Len(pos) :
                        /\ JitoBpsOf(pos[n].voter) # None
                        /\ JitoBpsOf(pos[n].voter)[1] > 1000}}
            /\ \A i \in 1..Len(jo) : jo[i].stake = combinedStake(jo[i].voter)
            /\ c.commissionCompliance.jitoOverCapCount = Len(jo)

\* the highCommission half of the above
C10_HighCommissionPart ==
    (combined # None /\ combined[1].totalActiveStake # NaN) =>
        LET c == combined[1]
            pos == WithStake(c.topValidators)
            hc == c.commissionCompliance.highCommission
        IN  /\ \A i, j \in 1..Len(hc) : hc[i].voter = hc[j].voter => i = j
            /\ {hc[i].voter : i \in 1..Len(hc)}
                  = {pos[j].voter : j \in {n \in 1..Len(pos) : IsHighCommission(pos[n])}}
            /\ \A i \in 1..Len(hc) :
                  hc[i].stake = AggregateOf(c.topValidators, hc[i].voter).totalStake

\* parseInt gives NaN for the stake field of the account's delegation
Unparsable(acct) ==
    acct.delegation # None /\ ParseStake(acct.delegation[1].stake) = NaN

\* C11: a stake account whose delegation stake cannot be parsed as a number
\* stops the analysis: the record is never folded into the aggregates (with
\* a substituted or non-numeric stake) and no report is produced from a list
\* that holds one.
C11_UnparsableRejected ==
    LET bad == {i \in 1..Len(accounts) : Unparsable(accounts[i])}
    IN  bad # {} =>
            /\ \A i \in bad : idx < i
            /\ \A j \in 1..Len(validators) :
                  validators[j].activeStake # NaN /\ validators[j].deactivatingStake # NaN
            /\ totalActive # NaN
            /\ result = <<>>

\* C12: a run in which a fetch (epoch info, validator metadata, vote
\* accounts, block production, the stake accounts of an authority) failed
\* has ended with exit code 1 and has written no report file; a report file
\* is written only when every fetch has succeeded and the whole report, the
\* combined section included, is assembled.
C12_FailFast ==
    /\ pc = "exit1" => (written = {} /\ combined = None)
    /\ written # {} =>
          /\ pc = "done"
          /\ valMap \in ValMaps
          /\ voteMap \in VoteMaps
          /\ Len(result) = Len(AUTHORITIES)
          /\ \A k \in 1..Len(AUTHORITIES) : result[k].key = AUTHORITIES[k]
          /\ combined # None

\* the fetch of the stake accounts of the second authority failed after the
\* first authority was analysed
C12_Witness ==
    /\ pc = "exit1"
    /\ Len(result) = 1
    /\ result[1].totalAccounts > 0
    /\ written = {}

---------------------------------------------------------------------------
(* Properties of the decentralization metrics, on analyzeStakeAccounts *)

\* the active stakes the analysis a was computed from, in its order
ActiveStakesOfAnalysis(a) == ActiveStakesOf(ActiveOf(a.allValidators))

AllEqual(stakes) == \A i, j \in 1..Len(stakes) : stakes[i] = stakes[j]

\* the sum of the squares of the stakes with index in I
RECURSIVE SquaresOver(_, _)
SquaresOver(stakes, I) ==
    IF I = {} THEN 0
    ELSE LET i == CHOOSE i \in I : TRUE
         IN  stakes[i] * stakes[i] + SquaresOver(stakes, I \ {i})

\* C13 (as amended): for an analysis with totalActive > 0, HHI is the sum of
\* the squared stake shares, the same for every order of the validators, and
\* lies in [1/n, 1] for n active validators; for n validators of equal
\* stake it is exactly 1/n, and for a single validator it is 1.
C13_HhiClosedInterval ==
    \A i \in 1..Len(result) :
        LET a == result[i]
            stakes == ActiveStakesOfAnalysis(a)
            n == Len(stakes)
            total == a.totalActive
            hhi == a.decentralization.hhi
        IN  (Gt(total, 0) /\ n > 0) =>
                /\ hhi.k = "num"
                /\ hhi.n * (total * total) = hhi.d * SquaresOver(stakes, 1..n)
                /\ \A p \in PermutationsOf(stakes) : Hhi(p, total) = hhi
                /\ n * hhi.n >= hhi.d
                /\ hhi.n <= hhi.d
                /\ AllEqual(stakes) => n * hhi.n = hhi.d
                /\ n = 1 => hhi.n = hhi.d

\* C13: for n validators of equal positive stake the reported HHI lies in
\* the interval (1/n, 1].
C13_HhiOpenInterval ==
    \A i \in 1..Len(result) :
        LET a == result[i]
            stakes == ActiveStakesOfAnalysis(a)
            n == Len(stakes)
            hhi == a.decentralization.hhi
        IN  (Gt(a.totalActive, 0) /\ n > 0 /\ AllEqual(stakes)) =>
                /\ hhi.k = "num"
                /\ n * hhi.n > hhi.d
                /\ hhi.n <= hhi.d

\* an analysis of three validators of 33 SOL each, HHI = 1/3
C13_Witness ==
    \E i \in 1..Len(result) :
        /\ result[i].activeValidators = 3
        /\ result[i].totalActive = 99
        /\ AllEqual(ActiveStakesOfAnalysis(result[i]))
        /\ 3 * result[i].decentralization.hhi.n = result[i].decentralization.hhi.d

AbsDiff(x, y) == IF x >= y THEN x - y ELSE y - x

\* the sum of a sequence of integers
RECURSIVE PlainSum(_)
PlainSum(s) == IF s = <<>> THEN 0 ELSE s[1] + PlainSum(Tail(s))

\* the sum of |stakes[i] - stakes[j]| over all ordered pairs
PairDifferences(stakes) ==
    LET n == Len(stakes)
        row(i) == PlainSum([j \in 1..n |-> AbsDiff(stakes[i], stakes[j])])
    IN  PlainSum([i \in 1..n |-> row(i)])

\* C14: for every non-empty distribution of positive stakes the reported
\* Gini coefficient is sum_i (2(i+1) - n - 1) * a[i] / (n * sum a) over the
\* stakes a sorted ascending (half the sum of all pairwise differences over
\* n * sum a), is 0 when all stakes are equal, and satisfies 0 <= gini < 1.
C14_GiniRange ==
    \A i \in 1..Len(result) :
        LET a == result[i]
            stakes == ActiveStakesOfAnalysis(a)
            n == Len(stakes)
            asc == SortAsc(stakes)
            gini == a.decentralization.gini
        IN  (a.totalActive # NaN /\ n > 0) =>
                /\ gini.k = "num"
                /\ gini.d = n * PlainSum(stakes)
                /\ gini.n = PlainSum([j \in 1..n |-> (2 * j - n - 1) * asc[j]])
                /\ \A j \in 1..(n - 1) : asc[j] <= asc[j + 1]
                /\ 2 * gini.n = PairDifferences(stakes)
                /\ AllEqual(stakes) => gini.n = 0
                /\ 0 <= gini.n
                /\ gini.n < gini.d

\* an analysis of four validators with stakes 33, 33, 33 and 1: gini > 0
C14_Witness ==
    \E i \in 1..Len(result) :
        /\ result[i].activeValidators = 4
        /\ result[i].totalActive = 100
        /\ result[i].decentralization.gini.k = "num"
        /\ result[i].decentralization.gini.n > 0


\* a validator with no entry in valMap and none in voteMap
HasNoMetadata(v) == valMap[v.voter] = None /\ voteMap[v.voter] = None

\* the validators of a report without metadata that the tallies do not skip
TalliedWithoutMetadata(r) ==
    {j \in 1..Len(r.validators) :
        HasNoMetadata(r.validators[j]) /\ ~SkippedInTally(r.validators[j])}

\* the breakdown es holds an entry "Unknown" that counts at least n validators
HasUnknownEntry(es, n) ==
    \E e \in 1..Len(es) : es[e].name = "Unknown" /\ es[e].count >= n

\* C15: a validator with no entry in the metadata map and none in the
\* vote-account map is enriched to null for name, commission, version,
\* country, city, asn and asnOrg and to false for isJito, delinquent and
\* superminority; its key is "Unknown" in each of the five categorical
\* dimensions, and where the tallies count it (activeStake not <= 0) every
\* dimension of the report holds an entry "Unknown" that counts it.
C15_MissingMetadata ==
    \A i \in 1..Len(result) :
        LET r == result[i]
            missing == TalliedWithoutMetadata(r)
        IN  /\ \A j \in 1..Len(r.validators) :
                LET v == r.validators[j]
                IN  HasNoMetadata(v) =>
                        /\ v.name = None /\ v.commission = None /\ v.version = None
                        /\ v.country = None /\ v.city = None
                        /\ v.asn = None /\ v.asnOrg = None
                        /\ v.jitoCommission = None
                        /\ ~v.isJito /\ ~v.delinquent /\ ~v.superminority
                        /\ CountryKey(v) = "Unknown" /\ CityKey(v) = "Unknown"
                        /\ AsnKey(v) = "Unknown" /\ VersionKey(v) = "Unknown"
                        /\ CommissionKey(v) = "Unknown"
            /\ missing # {} =>
                \A d \in 1..5 :
                    HasUnknownEntry(DimensionsOf(r)[d], Cardinality(missing))

\* the run has finished and a report holds validator D, which has no
\* metadata, with an active 1000 SOL next to validators that have metadata
C15_Witness ==
    /\ pc = "done"
    /\ written = {"latest.json", "snapshot.json"}
    /\ \E i \in 1..Len(result) :
        /\ Len(result[i].validators) >= 2
        /\ \E j \in 1..Len(result[i].validators) :
            /\ result[i].validators[j].voter = "D"
            /\ HasNoMetadata(result[i].validators[j])
            /\ result[i].validators[j].activeStake = 1000
        /\ \A d \in 1..5 : HasUnknownEntry(DimensionsOf(result[i])[d], 1)

\* the index in the input of the first stake account delegated to voter
FirstSeen(voter) ==
    CHOOSE k \in 1..Len(accounts) :
        /\ accounts[k].delegation # None
        /\ accounts[k].delegation[1].voter = voter
        /\ \A m \in 1..(k - 1) :
              accounts[m].delegation = None \/ accounts[m].delegation[1].voter # voter

\* vs is in non-increasing order of activeStake, and validators of equal
\* activeStake are in the order in which their voters were first seen
SortedByActiveStake(vs) ==
    \A i, j \in 1..Len(vs) :
        (i < j /\ vs[i].activeStake # NaN /\ vs[j].activeStake # NaN) =>
            /\ vs[i].activeStake >= vs[j].activeStake
            /\ vs[i].activeStake = vs[j].activeStake =>
                  FirstSeen(vs[i].voter) < FirstSeen(vs[j].voter)

\* C16: the validator list of an analysis is in non-increasing order of
\* activeStake, and validators with equal activeStake appear in the order
\* in which their voter identity was first seen in the input.
C16_SortedStable ==
    \A i \in 1..Len(result) : SortedByActiveStake(result[i].allValidators)

\* an analysis lists a validator of 1 SOL before a validator of 33 SOL
C16_Unsorted ==
    \E i \in 1..Len(result) :
        \E j, k \in 1..Len(result[i].allValidators) :
            /\ j < k
            /\ result[i].allValidators[j].activeStake = 1
            /\ result[i].allValidators[k].activeStake = 33

\* C17: in every analysis the reported superminorityCount (the prefix of the
\* active stakes reaching 0.33 * totalActive) is never larger than the
\* reported nakamotoCoeff33 (the prefix reaching totalActive / 3), both
\* prefixes are taken from the same list of active stakes, so the first is
\* a prefix of the second, and a prefix that reaches a third of the total
\* reaches 0.33 of it.
C17_SuperminorityWithinNakamoto ==
    \A i \in 1..Len(result) :
        LET a == result[i]
            stakes == ActiveStakesOfAnalysis(a)
            s == a.decentralization.superminorityCount
            k == a.decentralization.nakamotoCoeff33
        IN  /\ 0 <= s /\ s <= k /\ k <= Len(stakes)
            /\ SubSeq(stakes, 1, s) = SubSeq(SubSeq(stakes, 1, k), 1, s)
            /\ a.totalActive # NaN =>
                  /\ \A m \in 1..(s - 1) :
                        100 * PlainSum(SubSeq(stakes, 1, m)) < 33 * a.totalActive
                  /\ s < Len(stakes) =>
                        100 * PlainSum(SubSeq(stakes, 1, s)) >= 33 * a.totalActive
                  /\ k < Len(stakes) =>
                        3 * PlainSum(SubSeq(stakes, 1, k)) >= a.totalActive

\* stakes 33, 33, 33 and 1: the first validator holds 0.33 of the total but
\* less than a third of it, so the two counts differ
C17_Witness ==
    \E i \in 1..Len(result) :
        /\ result[i].totalActive = 100
        /\ result[i].activeValidators = 4
        /\ result[i].decentralization.superminorityCount = 1
        /\ result[i].decentralization.nakamotoCoeff33 = 2
============================================================================
